---- MODULE Spec2Model ----
(***************************************************************************)
(* Model of the two orchestration scripts of the monorepo template:        *)
(*   bootstrap        (orchestration/src/bootstrap.ts)                     *)
(*   create-worktree  (the second script, sanitizeBranchName and friends)  *)
(* Strings are sequences of UTF-16 code units (one-character strings).     *)
(* External commands (git, corepack, pnpm) succeed or fail                 *)
(* nondeterministically; a success has the command's effect on the disk.   *)
(***************************************************************************)
EXTENDS Integers, Sequences, FiniteSets, TLC

\* ------------------------------------------------------------------ bounds
MaxLen == 3      \* longest branch name drawn for the sanitizer
MaxRuns == 2     \* bootstrap invocations in one behaviour

\* ----------------------------------------------------------------- strings
Lower == {"a","b","c","d","e","f","g","h","i","j","k","l","m",
          "n","o","p","q","r","s","t","u","v","w","x","y","z"}
Upper == {"A","B","C","D","E","F","G","H","I","J","K","L","M",
          "N","O","P","Q","R","S","T","U","V","W","X","Y","Z"}
Digit == {"0","1","2","3","4","5","6","7","8","9"}

\* the character class [A-Za-z0-9._-]
SafeChar == Lower \cup Upper \cup Digit \cup {".", "_", "-"}

\* what String.prototype.trim strips (the members that occur in the model)
WhiteSpace == {" ", "\t", "\n"}

RECURSIVE TrimStart(_)
TrimStart(s) ==
  IF s # <<>> /\ Head(s) \in WhiteSpace THEN TrimStart(Tail(s)) ELSE s

RECURSIVE TrimEnd(_)
TrimEnd(s) ==
  IF s # <<>> /\ s[Len(s)] \in WhiteSpace
  THEN TrimEnd(SubSeq(s, 1, Len(s) - 1)) ELSE s

Trim(s) == TrimEnd(TrimStart(s))

StartsWith(s, pre) ==
  Len(s) >= Len(pre) /\ SubSeq(s, 1, Len(pre)) = pre

Includes(s, sub) ==
  \E i \in 1..(Len(s) - Len(sub) + 1) : SubSeq(s, i, i + Len(sub) - 1) = sub

Substring(s, from) == SubSeq(s, from + 1, Len(s))

\* path.join of a directory and one segment
Join(dir, seg) == dir \o <<"/">> \o seg

\* ------------------------------------------------------- sanitizeBranchName
\* branch.replace(/\//g, "__")
RECURSIVE ReplaceSlashes(_)
ReplaceSlashes(s) ==
  IF s = <<>> THEN <<>>
  ELSE (IF Head(s) = "/" THEN <<"_", "_">> ELSE <<Head(s)>>)
       \o ReplaceSlashes(Tail(s))

\* .replace(/[^A-Za-z0-9._-]/g, "_")
RECURSIVE ReplaceUnsafe(_)
ReplaceUnsafe(s) ==
  IF s = <<>> THEN <<>>
  ELSE <<IF Head(s) \in SafeChar THEN Head(s) ELSE "_">>
       \o ReplaceUnsafe(Tail(s))

\* mutant: the two replacements applied in the order of the doc comment
sanitizeUnsafeFirst(branch) == ReplaceSlashes(ReplaceUnsafe(branch))

sanitizeBranchName(branch) == ReplaceUnsafe(ReplaceSlashes(branch))

\* ------------------------------------------------------------ module paths
META_REPO_ROOT == <<"/", "m">>
DOT_BARE == <<".", "b", "a", "r", "e">>
BARE_PATH == Join(META_REPO_ROOT, DOT_BARE)
GITDIR_PREFIX == <<"g", "i", "t", "d", "i", "r", ":">>
WT_MAIN == <<"/","w","o","r","k","t","r","e","e","s","/","m","a","i","n">>


OURS_LINK ==
  GITDIR_PREFIX \o <<" ">> \o BARE_PATH \o WT_MAIN \o <<"\n">>
OTHER_BARE_LINK ==
  GITDIR_PREFIX \o <<" ", "/", "o", "/">> \o DOT_BARE \o WT_MAIN \o <<"\n">>
OTHER_REPO_LINK ==
  GITDIR_PREFIX \o <<" ", "/", "o", "/", ".", "g", "i", "t">> \o WT_MAIN \o <<"\n">>

WORKTREES_ROOT == Join(META_REPO_ROOT, <<"w","o","r","k","t","r","e","e","s">>)
MAIN_WORKTREE_PATH == Join(WORKTREES_ROOT, <<"m", "a", "i", "n">>)

\* ------------------------------------------------ project.config.json values
Undefined == [t |-> "undefined", s |-> <<>>]
Str(s) == [t |-> "string", s |-> s]
Num5 == [t |-> "number", s |-> <<"5">>]

\* JavaScript truthiness of the values above (the only number is non-zero)
Truthy(v) == (v.t = "string" /\ v.s # <<>>) \/ v.t = "number"

\* a || b
Or(a, b) == IF Truthy(a) THEN a ELSE b

REMOTE_URL == <<"g", "i", "t", "@", "h", ":", "r">>
MAIN_BRANCH == <<"m", "a", "i", "n">>

ObjectFile(remote, defaultBranch) ==
  [kind |-> "object", remote |-> remote, defaultBranch |-> defaultBranch]

\* the states of project.config.json a run can find
ConfigFiles ==
  { [kind |-> "absent", remote |-> Undefined, defaultBranch |-> Undefined],
    [kind |-> "unparsable", remote |-> Undefined, defaultBranch |-> Undefined],
    ObjectFile(Undefined, Undefined),
    ObjectFile(Str(<<>>), Undefined),
    ObjectFile(Str(<<" ", "\t">>), Undefined),
    ObjectFile(Num5, Undefined),
    ObjectFile(Str(REMOTE_URL), Undefined) }

Fatal == [ok |-> FALSE, remote |-> Undefined, defaultBranch |-> Undefined]

Loaded(file) ==
  [ok |-> TRUE, remote |-> file.remote,
   defaultBranch |-> Or(file.defaultBranch, Str(MAIN_BRANCH))]

\* loadConfig of bootstrap.ts
BootstrapLoadConfig(file) ==
  IF file.kind = "absent" THEN Fatal
  ELSE IF file.kind = "unparsable" THEN Fatal
  ELSE IF ~Truthy(file.remote) \/ file.remote.t # "string"
          \/ Trim(file.remote.s) = <<>>
       THEN Fatal
       ELSE Loaded(file)

\* loadConfig of create-worktree
WorktreeLoadConfig(file) ==
  IF file.kind = "absent" THEN Fatal
  ELSE IF file.kind = "unparsable" THEN Fatal
  ELSE IF ~Truthy(file.remote) THEN Fatal
       ELSE Loaded(file)

\* --------------------------------------------------- the main worktree dir
Dir(exists, workTree, gitFile, content) ==
  [exists |-> exists, workTree |-> workTree, gitFile |-> gitFile,
   content |-> content]

AbsentDir == Dir(FALSE, FALSE, FALSE, <<>>)
\* what a successful 'git worktree add' leaves at the path
OurWorktree == Dir(TRUE, TRUE, TRUE, OURS_LINK)

\* what can sit at worktrees/main before the first bootstrap
InitialMainDirs ==
  { AbsentDir,
    Dir(TRUE, FALSE, FALSE, <<>>),
    Dir(TRUE, TRUE, FALSE, <<>>),
    Dir(TRUE, TRUE, TRUE, BARE_PATH),
    Dir(TRUE, TRUE, TRUE, OTHER_REPO_LINK),
    Dir(TRUE, TRUE, TRUE, OTHER_BARE_LINK) }

\* verifyWorktreePointsToOurBare
verifyWorktreePointsToOurBare(dir) ==
  IF ~dir.gitFile THEN FALSE
  ELSE LET content == Trim(dir.content) IN
       IF ~StartsWith(content, GITDIR_PREFIX) THEN FALSE
       ELSE LET gitdir == Trim(Substring(content, Len(GITDIR_PREFIX))) IN
            Includes(gitdir, DOT_BARE)


\* -------------------------------------------------------------------- state
VARIABLES
  configFile,   \* project.config.json as the runs find it
  bare,         \* existsSync(BARE_PATH)
  mainDir,      \* what sits at worktrees/main
  nodeModules,  \* worktrees/main/node_modules exists
  wtDirs,       \* worktree path -> existsSync(path)
  bpc,          \* bootstrap: position in main()
  bruns,        \* bootstrap: invocations so far
  bconfig,      \* bootstrap: the loaded config
  blog,         \* bootstrap: commands run() was given in this invocation
  bexit,        \* bootstrap: exit code, -1 while running
  bstart,       \* bootstrap: the disk as the invocation found it
  wpc,          \* create-worktree, per invocation: position in main()
  wargs,        \* process.argv.slice(2)
  wpath,        \* worktreePath
  wlocal,       \* localExists
  wremote,      \* remoteExists
  wplan,        \* the git commands of lines 165-175 still to run
  wlog,         \* commands run() was given
  wexit,        \* exit code, -1 while running
  wseen,        \* what the two existsSync guards found
  sanIn,        \* sanitizer harness: the branch name
  sanOut,       \* sanitizer harness: the folder name
  sanDone

bvars == <<bpc, bruns, bconfig, blog, bexit, bstart>>
wvars == <<wpc, wargs, wpath, wlocal, wremote, wplan, wlog, wexit, wseen>>
disk == <<configFile, bare, mainDir, nodeModules, wtDirs>>
sanvars == <<sanIn, sanOut, sanDone>>
vars == <<disk, bvars, wvars, sanvars>>

\* the concurrent create-worktree invocations
Workers == {1, 2}

\* branch arguments given on the command line
FEATURE_BRANCH == <<"f", "/", "x">>
BUG_BRANCH == <<"b", "#", "1">>
Branches == {FEATURE_BRANCH, BUG_BRANCH}
ArgLists == {<<>>} \cup {<<b>> : b \in Branches}

WorktreePath(branch) == Join(WORKTREES_ROOT, sanitizeBranchName(branch))
WorktreePaths == {WorktreePath(b) : b \in Branches}

\* one call of run(): the command, its path and branch operands, its outcome
Cmd(cmd, path, branch, ok) ==
  [cmd |-> cmd, path |-> path, branch |-> branch, ok |-> ok]

Issued(log, cmds) == {i \in 1..Len(log) : log[i].cmd \in cmds}

Snapshot == [bare |-> bare, mainDir |-> mainDir, nodeModules |-> nodeModules]

DiskInit ==
  /\ configFile \in ConfigFiles
  /\ bare = FALSE
  /\ mainDir \in InitialMainDirs
  /\ nodeModules = FALSE
  /\ wtDirs = [d \in WorktreePaths |-> FALSE]

BootstrapInit ==
  /\ bpc = "idle"
  /\ bruns = 0
  /\ bconfig = Fatal
  /\ blog = <<>>
  /\ bexit = -1
  /\ bstart = [bare |-> FALSE, mainDir |-> AbsentDir, nodeModules |-> FALSE]

WorkersInit ==
  /\ wpc = [p \in Workers |-> "idle"]
  /\ wargs = [p \in Workers |-> <<>>]
  /\ wpath = [p \in Workers |-> <<>>]
  /\ wlocal = [p \in Workers |-> FALSE]
  /\ wremote = [p \in Workers |-> FALSE]
  /\ wplan = [p \in Workers |-> <<>>]
  /\ wlog = [p \in Workers |-> <<>>]
  /\ wexit = [p \in Workers |-> -1]
  /\ wseen = [p \in Workers |-> [bare |-> "unchecked", path |-> "unchecked"]]

SanIdle ==
  /\ sanIn = <<>>
  /\ sanOut = <<>>
  /\ sanDone = TRUE

Init == DiskInit /\ BootstrapInit /\ WorkersInit /\ SanIdle

\* ---------------------------------------------------------------- bootstrap
\* process.exit(1), or an exception that leaves main() uncaught
BFail ==
  /\ bpc' = "exited"
  /\ bexit' = 1

\* a new invocation of bootstrap
BStart ==
  /\ bpc \in {"idle", "done", "exited"}
  /\ bruns < MaxRuns
  /\ bruns' = bruns + 1
  /\ bpc' = "loadConfig"
  /\ blog' = <<>>
  /\ bexit' = -1
  /\ bconfig' = Fatal
  /\ bstart' = Snapshot
  /\ UNCHANGED <<disk, wvars, sanvars>>

BLoadConfig ==
  /\ bpc = "loadConfig"
  /\ LET config == BootstrapLoadConfig(configFile) IN
       IF config.ok
       THEN bpc' = "checkBare" /\ bconfig' = config /\ bexit' = bexit
       ELSE BFail /\ bconfig' = bconfig
  /\ UNCHANGED <<bruns, blog, bstart, disk, wvars, sanvars>>

\* mutant: the clone is attempted whether or not .bare is there
CloneAlways(bareExists) == TRUE

\* if (!existsSync(BARE_PATH)) cloneBareRepo(...)
NeedClone(bareExists) == ~bareExists

BCheckBare ==
  /\ bpc = "checkBare"
  /\ bpc' = IF NeedClone(bare) THEN "clone" ELSE "checkMain"
  /\ UNCHANGED <<bruns, bconfig, blog, bexit, bstart, disk, wvars, sanvars>>

\* cloneBareRepo: git refuses to clone into an existing .bare
BClone ==
  /\ bpc = "clone"
  /\ \E ok \in BOOLEAN :
       /\ ok => ~bare
       /\ blog' = Append(blog, Cmd("clone --bare", BARE_PATH, <<>>, ok))
       /\ IF ok
          THEN bare' = TRUE /\ bpc' = "checkMain" /\ bexit' = bexit
          ELSE bare' = bare /\ BFail
  /\ UNCHANGED <<bruns, bconfig, bstart, configFile, mainDir, nodeModules,
                 wtDirs, wvars, sanvars>>

\* createWorktree: if (existsSync(mainWorktreePath))
BCheckMain ==
  /\ bpc = "checkMain"
  /\ bpc' = IF mainDir.exists THEN "revParse" ELSE "add"
  /\ UNCHANGED <<bruns, bconfig, blog, bexit, bstart, disk, wvars, sanvars>>

\* git -C <main> rev-parse --is-inside-work-tree, inside the try
BRevParse ==
  /\ bpc = "revParse"
  /\ LET ok == mainDir.exists /\ mainDir.workTree IN
       /\ blog' = Append(blog, Cmd("rev-parse", MAIN_WORKTREE_PATH, <<>>, ok))
       /\ IF ok THEN bpc' = "verify" /\ bexit' = bexit ELSE BFail
  /\ UNCHANGED <<bruns, bconfig, bstart, disk, wvars, sanvars>>

BVerify ==
  /\ bpc = "verify"
  /\ IF verifyWorktreePointsToOurBare(mainDir)
     THEN bpc' = "corepack" /\ bexit' = bexit
     ELSE BFail
  /\ UNCHANGED <<bruns, bconfig, blog, bstart, disk, wvars, sanvars>>

\* git worktree add <main> <branch>; an uncaught failure ends the run
BAdd ==
  /\ bpc = "add"
  /\ \E ok \in BOOLEAN :
       /\ ok => (bare /\ ~mainDir.exists)
       /\ blog' = Append(blog, Cmd("worktree add", MAIN_WORKTREE_PATH,
                                   bconfig.defaultBranch.s, ok))
       /\ IF ok
          THEN mainDir' = OurWorktree /\ bpc' = "corepack" /\ bexit' = bexit
          ELSE mainDir' = mainDir /\ BFail
  /\ UNCHANGED <<bruns, bconfig, bstart, configFile, bare, nodeModules,
                 wtDirs, wvars, sanvars>>

\* enableCorepack: the catch only warns
AfterCorepack(ok) == "install"

BCorepack ==
  /\ bpc = "corepack"
  /\ \E ok \in BOOLEAN :
       /\ blog' = Append(blog, Cmd("corepack enable", <<>>, <<>>, ok))
       /\ bpc' = AfterCorepack(ok)
       /\ bexit' = IF AfterCorepack(ok) = "exited" THEN 1 ELSE bexit
  /\ UNCHANGED <<bruns, bconfig, bstart, disk, wvars, sanvars>>

\* installDependencies: pnpm install in the main worktree
BInstall ==
  /\ bpc = "install"
  /\ \E ok \in BOOLEAN :
       /\ ok => mainDir.exists
       /\ blog' = Append(blog, Cmd("pnpm install", MAIN_WORKTREE_PATH, <<>>, ok))
       /\ IF ok
          THEN nodeModules' = TRUE /\ bpc' = "done" /\ bexit' = 0
          ELSE nodeModules' = nodeModules /\ BFail
  /\ UNCHANGED <<bruns, bconfig, bstart, configFile, bare, mainDir, wtDirs,
                 wvars, sanvars>>

Bootstrap ==
  \/ BStart \/ BLoadConfig \/ BCheckBare \/ BClone \/ BCheckMain
  \/ BRevParse \/ BVerify \/ BAdd \/ BCorepack \/ BInstall


\* ---------------------------------------------------------- create-worktree
WFail(p) ==
  /\ wpc' = [wpc EXCEPT ![p] = "exited"]
  /\ wexit' = [wexit EXCEPT ![p] = 1]

WGoto(p, label) ==
  /\ wpc' = [wpc EXCEPT ![p] = label]
  /\ wexit' = wexit

WRan(p, cmd, ok) ==
  wlog' = [wlog EXCEPT ![p] = Append(@, Cmd(cmd, wpath[p], wargs[p][1], ok))]

\* an invocation with its command line
WStart(p) ==
  /\ wpc[p] = "idle"
  /\ \E args \in ArgLists : wargs' = [wargs EXCEPT ![p] = args]
  /\ WGoto(p, "args")
  /\ UNCHANGED <<wpath, wlocal, wremote, wplan, wlog, wseen, disk, bvars,
                 sanvars>>

\* if (args.length === 0) usage, exit 1
WArgs(p) ==
  /\ wpc[p] = "args"
  /\ IF Len(wargs[p]) = 0 THEN WFail(p) ELSE WGoto(p, "loadConfig")
  /\ UNCHANGED <<wargs, wpath, wlocal, wremote, wplan, wlog, wseen, disk,
                 bvars, sanvars>>

\* loadConfig, sanitizeBranchName, the two joins
WLoadConfig(p) ==
  /\ wpc[p] = "loadConfig"
  /\ IF WorktreeLoadConfig(configFile).ok
     THEN /\ WGoto(p, "checkBare")
          /\ wpath' = [wpath EXCEPT ![p] = WorktreePath(wargs[p][1])]
     ELSE /\ WFail(p)
          /\ wpath' = wpath
  /\ UNCHANGED <<wargs, wlocal, wremote, wplan, wlog, wseen, disk, bvars,
                 sanvars>>

Seen(exists) == IF exists THEN "present" ELSE "absent"

\* mutant: the .bare guard is missing
BareGuardMissing(bareExists) == "checkPath"

\* if (!existsSync(BARE_PATH)) exit 1
AfterBareCheck(bareExists) == IF ~bareExists THEN "exited" ELSE "checkPath"

WCheckBare(p) ==
  /\ wpc[p] = "checkBare"
  /\ wseen' = [wseen EXCEPT ![p].bare = Seen(bare)]
  /\ IF AfterBareCheck(bare) = "exited"
     THEN WFail(p) ELSE WGoto(p, AfterBareCheck(bare))
  /\ UNCHANGED <<wargs, wpath, wlocal, wremote, wplan, wlog, disk, bvars,
                 sanvars>>

\* the invocations between the path guard and the end of their worktree add
Creating(path) ==
  {q \in Workers : wpath[q] = path
                   /\ wpc[q] \in {"fetch", "showLocal", "showRemote", "git"}}

\* mutant: the path guard placed after the fetch
PathGuardMissing(p, pathExists) == "fetch"

\* mutant: the path guard also refuses while another invocation is creating
\* the same path (a lock)
PathGuardLocked(p, pathExists) ==
  IF pathExists \/ Creating(wpath[p]) \ {p} # {} THEN "exited" ELSE "fetch"

\* if (existsSync(worktreePath)) exit 1
AfterPathCheck(p, pathExists) == IF pathExists THEN "exited" ELSE "fetch"

WCheckPath(p) ==
  /\ wpc[p] = "checkPath"
  /\ wseen' = [wseen EXCEPT ![p].path = Seen(wtDirs[wpath[p]])]
  /\ IF AfterPathCheck(p, wtDirs[wpath[p]]) = "exited"
     THEN WFail(p) ELSE WGoto(p, AfterPathCheck(p, wtDirs[wpath[p]]))
  /\ UNCHANGED <<wargs, wpath, wlocal, wremote, wplan, wlog, disk, bvars,
                 sanvars>>

\* mutant: a failed fetch ends the run
FetchFatal(ok) == IF ok THEN "showLocal" ELSE "exited"

\* fetchLatest: the catch only warns
AfterFetch(ok) == "showLocal"

WFetch(p) ==
  /\ wpc[p] = "fetch"
  /\ \E ok \in BOOLEAN :
       /\ ok => bare
       /\ WRan(p, "fetch --all --prune", ok)
       /\ IF AfterFetch(ok) = "exited"
          THEN WFail(p) ELSE WGoto(p, AfterFetch(ok))
  /\ UNCHANGED <<wargs, wpath, wlocal, wremote, wplan, wseen, disk, bvars,
                 sanvars>>

\* branchExists(branch, "local"): show-ref succeeds or not
WShowLocal(p) ==
  /\ wpc[p] = "showLocal"
  /\ \E ok \in BOOLEAN :
       /\ WRan(p, "show-ref refs/heads", ok)
       /\ wlocal' = [wlocal EXCEPT ![p] = ok]
  /\ WGoto(p, "showRemote")
  /\ UNCHANGED <<wargs, wpath, wremote, wplan, wseen, disk, bvars, sanvars>>

\* mutant: the remote-tracking ref is preferred over the local one
ResolveRemoteFirst(localExists, remoteExists) ==
  IF remoteExists THEN <<"branch", "worktree add">>
  ELSE IF localExists THEN <<"worktree add">>
  ELSE <<"worktree add -b">>

\* lines 165-175: the git commands the three arms give to run(), in order
ResolvePlan(localExists, remoteExists) ==
  IF localExists THEN <<"worktree add">>
  ELSE IF remoteExists THEN <<"branch", "worktree add">>
  ELSE <<"worktree add -b">>

\* branchExists(branch, "remote"), then the if / else if / else
WShowRemote(p) ==
  /\ wpc[p] = "showRemote"
  /\ \E ok \in BOOLEAN :
       /\ WRan(p, "show-ref refs/remotes/origin", ok)
       /\ wremote' = [wremote EXCEPT ![p] = ok]
       /\ wplan' = [wplan EXCEPT ![p] = ResolvePlan(wlocal[p], ok)]
  /\ WGoto(p, "git")
  /\ UNCHANGED <<wargs, wpath, wlocal, wseen, disk, bvars, sanvars>>

AddCmds == {"worktree add", "worktree add -b"}

\* createTrackingBranch / createWorktree: the next command of the arm;
\* git refuses to add a worktree at a path that exists; a failure is uncaught
WGit(p) ==
  /\ wpc[p] = "git"
  /\ wplan[p] # <<>>
  /\ LET cmd == Head(wplan[p]) IN
     \E ok \in BOOLEAN :
       /\ ok => bare
       /\ (ok /\ cmd \in AddCmds) => ~wtDirs[wpath[p]]
       /\ WRan(p, cmd, ok)
       /\ wtDirs' = IF ok /\ cmd \in AddCmds
                    THEN [wtDirs EXCEPT ![wpath[p]] = TRUE] ELSE wtDirs
       /\ IF ~ok THEN WFail(p) /\ wplan' = wplan
          ELSE /\ wplan' = [wplan EXCEPT ![p] = Tail(@)]
               /\ WGoto(p, IF Tail(wplan[p]) = <<>> THEN "install" ELSE "git")
  /\ UNCHANGED <<wargs, wpath, wlocal, wremote, wseen, configFile, bare,
                 mainDir, nodeModules, bvars, sanvars>>

\* installDependencies(worktreePath)
WInstall(p) ==
  /\ wpc[p] = "install"
  /\ \E ok \in BOOLEAN :
       /\ ok => wtDirs[wpath[p]]
       /\ WRan(p, "pnpm install", ok)
       /\ IF ok
          THEN wpc' = [wpc EXCEPT ![p] = "done"] /\ wexit' = [wexit EXCEPT ![p] = 0]
          ELSE WFail(p)
  /\ UNCHANGED <<wargs, wpath, wlocal, wremote, wplan, wseen, disk, bvars,
                 sanvars>>

CreateWorktree(p) ==
  \/ WStart(p) \/ WArgs(p) \/ WLoadConfig(p) \/ WCheckBare(p)
  \/ WCheckPath(p) \/ WFetch(p) \/ WShowLocal(p) \/ WShowRemote(p)
  \/ WGit(p) \/ WInstall(p)

\* bootstrap runs, repeatedly, beside one create-worktree invocation
Next == Bootstrap \/ \E p \in {1} : CreateWorktree(p)

Spec == Init /\ [][Next]_vars

\* two create-worktree invocations side by side, on a fresh meta-repo or on
\* one that bootstrap has set up; a directory may already sit at a target path
RaceInit ==
  /\ configFile \in ConfigFiles
  /\ \/ bare = FALSE /\ mainDir = AbsentDir /\ nodeModules = FALSE
     \/ bare = TRUE /\ mainDir = OurWorktree /\ nodeModules = TRUE
  /\ wtDirs \in [WorktreePaths -> BOOLEAN]
  /\ BootstrapInit
  /\ WorkersInit
  /\ SanIdle

RaceNext == \E p \in Workers : CreateWorktree(p)

RaceSpec == RaceInit /\ [][RaceNext]_vars

\* ------------------------------------------------------ sanitizer harness
SanAlphabet == {"/", "a", "Z", "7", ".", "_", "-", "#", " "}

Strings(n) == UNION {[1..k -> SanAlphabet] : k \in 0..n}

SanInit ==
  /\ sanIn \in Strings(MaxLen)
  /\ sanOut = <<>>
  /\ sanDone = FALSE
  /\ configFile = ObjectFile(Str(REMOTE_URL), Undefined)
  /\ bare = FALSE
  /\ mainDir = AbsentDir
  /\ nodeModules = FALSE
  /\ wtDirs = [d \in WorktreePaths |-> FALSE]
  /\ BootstrapInit
  /\ WorkersInit

Sanitize ==
  /\ ~sanDone
  /\ sanOut' = sanitizeBranchName(sanIn)
  /\ sanDone' = TRUE
  /\ UNCHANGED <<sanIn, disk, bvars, wvars>>

SanSpec == SanInit /\ [][Sanitize]_vars


\* =================================================================== claims
GitCmds == {"branch"} \cup AddCmds

\* the branch-create and worktree-add commands an invocation issued, in order
RECURSIVE GitNames(_)
GitNames(log) ==
  IF log = <<>> THEN <<>>
  ELSE (IF Head(log).cmd \in GitCmds THEN <<Head(log).cmd>> ELSE <<>>)
       \o GitNames(Tail(log))

\* both ref checks are done and the chosen arm has run to its end or failed
Resolved(p) ==
  /\ Issued(wlog[p], {"show-ref refs/remotes/origin"}) # {}
  /\ wpc[p] # "git"

FirstMatch(localExists, remoteExists) ==
  IF localExists THEN <<"worktree add">>
  ELSE IF remoteExists THEN <<"branch", "worktree add">>
  ELSE <<"worktree add -b">>

BranchCreateFailed(p) ==
  \E i \in Issued(wlog[p], {"branch"}) : ~wlog[p][i].ok

\* C1 as stated: in each of the three cases the commands are those of the
\* first matching case, with exactly one worktree-add among them.
C1_Original ==
  \A p \in Workers :
    Resolved(p) =>
      /\ GitNames(wlog[p]) = FirstMatch(wlocal[p], wremote[p])
      /\ Cardinality(Issued(wlog[p], AddCmds)) = 1

\* C1 amended: the commands are those of the first matching case (local,
\* remote, neither), exactly one worktree-add among them, except that in the
\* remote case a failed branch-create ends the run with no worktree-add.
C1_FirstMatchWins ==
  \A p \in Workers :
    Resolved(p) =>
      IF BranchCreateFailed(p)
      THEN /\ ~wlocal[p] /\ wremote[p]
           /\ GitNames(wlog[p]) = <<"branch">>
           /\ wpc[p] = "exited" /\ wexit[p] = 1
      ELSE /\ GitNames(wlog[p]) = FirstMatch(wlocal[p], wremote[p])
           /\ Cardinality(Issued(wlog[p], AddCmds)) = 1

C1_Witness ==
  \E p \in Workers :
    /\ Resolved(p) /\ ~wlocal[p] /\ wremote[p]
    /\ GitNames(wlog[p]) = <<"branch", "worktree add">>

RemoteBlank(file) ==
  /\ file.kind = "object"
  /\ \/ file.remote.t = "undefined"
     \/ file.remote.t = "string" /\ Trim(file.remote.s) = <<>>

\* C2: with codebase.remote missing, empty or blank, the loader of either
\* procedure ends the process with a non-zero exit code and no command is run.
C2_BlankRemoteIsFatal ==
  RemoteBlank(configFile) =>
    /\ blog = <<>>
    /\ bpc \notin {"idle", "loadConfig"} => (bpc = "exited" /\ bexit = 1)
    /\ \A p \in Workers :
         /\ wlog[p] = <<>>
         /\ wpc[p] \notin {"idle", "args", "loadConfig"}
              => (wpc[p] = "exited" /\ wexit[p] = 1)

\* C3: an invocation that finds .bare absent exits 1 with no command run,
\* whatever its branch argument and whether or not its target path exists.
C3_NoBareIsFatal ==
  \A p \in Workers :
    wseen[p].bare = "absent" =>
      (wpc[p] = "exited" /\ wexit[p] = 1 /\ wlog[p] = <<>>)

C3_Witness ==
  \E p \in Workers : wseen[p].bare = "absent" /\ wtDirs[wpath[p]]

\* C4: an invocation that finds its target path present exits 1 with no
\* command run, and the directory stays where it was.
C4_ExistingPathIsFatal ==
  \A p \in Workers :
    wseen[p].path = "present" =>
      /\ wpc[p] = "exited" /\ wexit[p] = 1 /\ wlog[p] = <<>>
      /\ wtDirs[wpath[p]]

C4_Witness ==
  \E p \in Workers : wseen[p].path = "present" /\ wseen[p].bare = "present"

ReferencesBarePath(dir) == dir.gitFile /\ Includes(dir.content, BARE_PATH)

ConflictingMain(dir) ==
  dir.exists /\ (~dir.workTree \/ ~ReferencesBarePath(dir))

\* C5: a bootstrap run that finds worktrees/main present but not a valid
\* working tree, or with a .git file that does not reference the bare
\* repository path, exits non-zero without worktree-add, corepack or install.
C5_ConflictingMainIsFatal ==
  (bpc # "idle" /\ ConflictingMain(bstart.mainDir)) =>
    /\ Issued(blog, {"worktree add", "corepack enable", "pnpm install"}) = {}
    /\ bpc \in {"done", "exited"} => bexit = 1

\* C6: a bootstrap run that finds node_modules in the main worktree issues
\* no 'pnpm install'.
C6_InstallSkipped ==
  (bpc # "idle" /\ bstart.nodeModules) => Issued(blog, {"pnpm install"}) = {}

Failed(log, cmd) == \E i \in Issued(log, {cmd}) : ~log[i].ok
Succeeded(log, cmds) == \E i \in Issued(log, cmds) : log[i].ok

\* C7: a failed 'corepack enable' is followed by the install; after a failed
\* fetch the run goes on to both ref checks, the resolved git commands and the
\* install, and ends early only where a git command or the install fails.
C7_BestEffort ==
  /\ Failed(blog, "corepack enable") =>
       (bpc = "install" \/ Issued(blog, {"pnpm install"}) # {})
  /\ \A p \in Workers :
       Failed(wlog[p], "fetch --all --prune") =>
         /\ wpc[p] \in {"showLocal", "showRemote", "git", "install", "done",
                        "exited"}
         /\ wpc[p] = "exited" =>
              LET last == wlog[p][Len(wlog[p])] IN
                last.cmd \in GitCmds \cup {"pnpm install"} /\ ~last.ok
         /\ wpc[p] \in {"git", "install", "done", "exited"} =>
              /\ wlog[p][2].cmd = "show-ref refs/heads"
              /\ wlog[p][3].cmd = "show-ref refs/remotes/origin"
         /\ Resolved(p) /\ ~BranchCreateFailed(p) =>
              GitNames(wlog[p]) = FirstMatch(wlocal[p], wremote[p])
         /\ wpc[p] = "done" => Succeeded(wlog[p], {"pnpm install"})

C7_Witness ==
  /\ Failed(blog, "corepack enable") /\ bpc = "done"
  /\ \E p \in Workers : Failed(wlog[p], "fetch --all --prune") /\ wpc[p] = "done"

\* the character-wise map of C8
RECURSIVE CharMap(_)
CharMap(s) ==
  IF s = <<>> THEN <<>>
  ELSE LET c == Head(s) IN
       (IF c = "/" THEN <<"_", "_">>
        ELSE IF c \in SafeChar THEN <<c>> ELSE <<"_">>)
       \o CharMap(Tail(s))

Chars(s) == {s[i] : i \in 1..Len(s)}

\* C8: sanitizeBranchName(b) is the character-wise map of b ('/' to '__',
\* any other character outside [A-Za-z0-9._-] to '_', the rest unchanged), so
\* it has no '/' and only characters of [A-Za-z0-9._-].
C8_SanitizeIsCharMap ==
  sanDone =>
    /\ sanOut = CharMap(sanIn)
    /\ "/" \notin Chars(sanOut)
    /\ Chars(sanOut) \subseteq SafeChar

C8_Witness ==
  /\ sanDone
  /\ "/" \in Chars(sanIn)
  /\ Chars(sanIn) \cap SafeChar # {}
  /\ Chars(sanIn) \ (SafeChar \cup {"/"}) # {}

\* C9: no lock guards the target path: an invocation at the path guard that
\* finds the path absent goes on to the fetch whatever the other invocation
\* is doing, so both can pass the guard and both issue a worktree-add.
C9_GuardIsNoLock ==
  [][\A p \in Workers :
       (wpc[p] = "checkPath" /\ ~wtDirs[wpath[p]] /\ wpc'[p] # "checkPath")
         => wpc'[p] = "fetch"]_vars

C9_Witness ==
  /\ wpath[1] = wpath[2]
  /\ wseen[1].path = "absent" /\ wseen[2].path = "absent"
  /\ Issued(wlog[1], AddCmds) # {} /\ Issued(wlog[2], AddCmds) # {}

CloneIssued == Issued(blog, {"clone --bare"}) # {}
MainAddIssued == Issued(blog, {"worktree add"}) # {}
BTerminal == bpc \in {"done", "exited"}

LeftBySuccess(s) == s.bare /\ s.mainDir = OurWorktree /\ s.nodeModules

====
